---- MODULE Spec2Model ----
(***************************************************************************)
(* Life-in-weeks grid construction: event merging, the year/week calendar  *)
(* walk, the milestone colour pass (WeeksGrid component) and the           *)
(* width-based row breaking of utils/grid-layout.ts.                       *)
(*                                                                         *)
(* Conventions                                                             *)
(*  - a JavaScript Date is the number of days from 0001-01-01 (proleptic   *)
(*    Gregorian) to its local calendar day; months are 1..12 here. The     *)
(*    time of day is left out: the walk compares dates only with           *)
(*    local-midnight dates (date >= nextBirthday), which the local day     *)
(*    decides, and the sort uses differences of UTC midnights;             *)
(*  - new Date('YYYY-MM-DD') is UTC midnight: in a zone west of UTC its    *)
(*    local day is the day before (timeZone = "west"), in UTC and east of  *)
(*    it the day itself (timeZone = "UTC");                                *)
(*  - a 'YYYY-MM-DD' string is the triple <<y, m, d>>;                     *)
(*  - a JavaScript string is the sequence of its code points; .length      *)
(*    counts UTF-16 units (Utf16Len);                                      *)
(*  - a JavaScript number that may be undefined, NaN or infinite is a      *)
(*    record [k, v] (Num, Undefined, NaN, PosInf, NegInf); Half(n) is the  *)
(*    fractional number n + 0.5, as getBoundingClientRect may return.      *)
(*  - tooltip, borderClass, backgroundClass and the age of week boxes are  *)
(*    display-only fields of GridBox and are left out of the box records.  *)
(***************************************************************************)
EXTENDS Integers, Sequences, FiniteSets, TLC

VARIABLES
    \* ---- WeeksGrid render: inputs ----
    weeksConfig,      \* [startDate (YYYY-MM-DD), startYear, endYear]
    lifeEvents,       \* prop lifeEvents: date -> personal events
    worldEvents,      \* data table worldEvents: date -> events
    usPresidents,     \* data table usPresidents: date -> events
    APP_CONFIG,       \* [defaultShowWorldEvents, defaultShowPresidents]
    milestoneColors,  \* palette returned by generateMilestoneColors
    timeZone,         \* ambient: "UTC" (UTC or east of it) or "west"
    containerWidth,   \* React state containerWidth (0 until measured)
    \* ---- WeeksGrid render: working state ----
    mergedEvents,     \* merged: date -> tagged events
    milestoneWeeks,   \* Set of date strings
    allBoxes,         \* allBoxes: GridBox[]
    year,             \* outer loop variable
    sortedBoxes,      \* allBoxes sorted by date
    pos,              \* position of the colour pass in sortedBoxes (1-based)
    colorIndex,       \* colorIndex
    currentBoxColor,  \* currentBoxColor
    boxColorMap,      \* boxColorMap: date -> colour
    colorTrace,       \* history: [index, color] after each sorted box
    pc,               \* position in the render body
    \* ---- ResponsiveLayoutEngine (processBoxesIntoRows) ----
    boxes,            \* argument boxes: GridBox[]
    compactMode,      \* argument compactMode / prop isCompactMode
    measuredWidth,    \* argument measuredWidth (JS number or undefined)
    window,           \* ambient: [defined, innerWidth]
    rows,             \* rows: GridBox[][]
    currentRow,       \* currentRow: GridBox[]
    currentRowWidth,  \* currentRowWidth
    i,                \* loop index (1-based: next box to place)
    lpc,              \* position in processBoxesIntoRows
    invocation,       \* 1 for the first invocation, 2 for the repeated one
    prevRows,         \* rows returned by the preceding invocation
    prevWindow,       \* window seen by the preceding invocation
    \* ---- WeeksGrid: the preceding render ----
    renderNo,         \* 1 until isCompactMode changes, 2 afterwards
    prevAllBoxes,     \* allBoxes of the preceding render
    prevBoxColorMap,  \* boxColorMap of the preceding render
    prevColorTrace,   \* colorTrace of the preceding render
    effectPending,    \* the effect calling measureContainer has yet to run
    renderPending,    \* a changed state or prop awaits its render
    depsChanged,      \* isCompactMode changed since the last render
    observerConnected \* the mount effect has connected the ResizeObserver

layoutVars == <<boxes, compactMode, measuredWidth, window, rows, currentRow,
                currentRowWidth, i, lpc, invocation, prevRows, prevWindow>>

inputVars == <<weeksConfig, lifeEvents, worldEvents, usPresidents, APP_CONFIG,
               milestoneColors, timeZone>>

walkVars == <<mergedEvents, milestoneWeeks, allBoxes, year>>

colorVars == <<sortedBoxes, pos, colorIndex, currentBoxColor, boxColorMap,
               colorTrace>>

renderVars == <<renderNo, prevAllBoxes, prevBoxColorMap, prevColorTrace,
                effectPending, renderPending, depsChanged,
                observerConnected>>

gridVars == <<inputVars, containerWidth, walkVars, colorVars, pc, renderVars>>

vars == <<gridVars, layoutVars>>

\* ------------------------------------------------------------- bounds
MaxBoxes == 3
LongLabelLen == 40
MaxAge == 2

\* ------------------------------------------------------- JS numbers
Num(n) == [k |-> "num", v |-> n]
Undefined == [k |-> "undefined", v |-> 0]
NaN == [k |-> "NaN", v |-> 0]
PosInf == [k |-> "Infinity", v |-> 0]
NegInf == [k |-> "-Infinity", v |-> 0]
\* the number n + 0.5
Half(n) == [k |-> "half", v |-> n]

\* ToBoolean(x) for a number or undefined
JsTruthy(x) == \/ x.k = "num" /\ x.v # 0
               \/ x.k = "half"
               \/ x.k \in {"Infinity", "-Infinity"}

\* x > 0
JsGtZero(x) == \/ x.k = "num" /\ x.v > 0
               \/ x.k = "half" /\ x.v >= 0
               \/ x.k = "Infinity"

\* x <= n, x < n for a JS number x and an integer n
JsLeq(x, n) == \/ x.k = "num" /\ x.v <= n
               \/ x.k = "half" /\ x.v < n
               \/ x.k = "-Infinity"
JsLt(x, n) == \/ x.k = "num" /\ x.v < n
              \/ x.k = "half" /\ x.v < n
              \/ x.k = "-Infinity"

\* n >= x for an integer n and a JS number x
IntGeqJs(n, x) == \/ x.k = "num" /\ n >= x.v
                  \/ x.k = "half" /\ n > x.v
                  \/ x.k = "-Infinity"

Max(a, b) == IF a >= b THEN a ELSE b
Min(a, b) == IF a <= b THEN a ELSE b

\* Math.max(lo, Math.min(hi, Math.floor(x / d))) for a positive x
ClampFloorDiv(x, d, lo, hi) ==
    IF x.k = "Infinity" THEN Max(lo, hi)
    ELSE IF x.k = "half" THEN Max(lo, Min(hi, (2 * x.v + 1) \div (2 * d)))
    ELSE Max(lo, Min(hi, x.v \div d))

\* Math.floor(x * 0.95) for a positive x
SafeWidth(x) ==
    IF x.k = "Infinity" THEN PosInf
    ELSE IF x.k = "half" THEN Num(((2 * x.v + 1) * 95) \div 200)
    ELSE Num((x.v * 95) \div 100)

\* ------------------------------------------------------- JS strings
\* label.length: UTF-16 code units
RECURSIVE Utf16Len(_)
Utf16Len(s) ==
    IF s = <<>> THEN 0
    ELSE (IF Head(s) > 65535 THEN 2 ELSE 1) + Utf16Len(Tail(s))

\* ------------------------------------------------------------ dates
isLeapYear(y) == (y % 4 = 0 /\ y % 100 # 0) \/ y % 400 = 0

\* days from 0001-01-01 to January 1st of year y
DaysBeforeYear(y) ==
    365 * (y - 1) + ((y - 1) \div 4) - ((y - 1) \div 100) + ((y - 1) \div 400)

\* days from January 1st to the first of month m (1..12) in year y
DaysBeforeMonth(y, m) ==
    <<0, 31, 59, 90, 120, 151, 181, 212, 243, 273, 304, 334>>[m]
        + (IF m > 2 /\ isLeapYear(y) THEN 1 ELSE 0)

\* new Date(y, m - 1, d): a day number; d past the month's end rolls over
\* into the following month, as in JavaScript
MkDate(y, m, d) == DaysBeforeYear(y) + DaysBeforeMonth(y, m) + d - 1

\* date.getDay(): 0 = Sunday (0001-01-01 was a Monday)
getDay(n) == (n + 1) % 7

\* date.getFullYear(): the estimate from the mean year length is off by
\* at most one
getFullYear(n) ==
    LET y0 == ((n * 400) \div 146097) + 1
    IN  IF n < DaysBeforeYear(y0) THEN y0 - 1
        ELSE IF n >= DaysBeforeYear(y0 + 1) THEN y0 + 1
        ELSE y0

\* the month (1..12) of the day-of-year doy (0-based) in year y
MonthOfDay(y, doy) ==
    LET l == IF isLeapYear(y) THEN 1 ELSE 0
    IN  IF doy < 31 THEN 1
        ELSE IF doy < 59 + l THEN 2
        ELSE IF doy < 90 + l THEN 3
        ELSE IF doy < 120 + l THEN 4
        ELSE IF doy < 151 + l THEN 5
        ELSE IF doy < 181 + l THEN 6
        ELSE IF doy < 212 + l THEN 7
        ELSE IF doy < 243 + l THEN 8
        ELSE IF doy < 273 + l THEN 9
        ELSE IF doy < 304 + l THEN 10
        ELSE IF doy < 334 + l THEN 11
        ELSE 12

\* date.getMonth() + 1
getMonth(n) ==
    LET y == getFullYear(n)
    IN  MonthOfDay(y, n - DaysBeforeYear(y))

getDate(n) ==
    LET y == getFullYear(n)
        doy == n - DaysBeforeYear(y)
    IN  doy - DaysBeforeMonth(y, MonthOfDay(y, doy)) + 1

\* utils/date-processing formatDateString: the local calendar date
\* 'YYYY-MM-DD' of a Date
formatDateString(n) ==
    LET y == getFullYear(n)
        doy == n - DaysBeforeYear(y)
        m == MonthOfDay(y, doy)
    IN  <<y, m, doy - DaysBeforeMonth(y, m) + 1>>

\* new Date('YYYY-MM-DD'): UTC midnight of the date, as a local day; west
\* of UTC that instant falls on the preceding local day
ParseDate(str) ==
    MkDate(str[1], str[2], str[3]) - (IF timeZone = "west" THEN 1 ELSE 0)

\* utils/date-processing getWeekStartSunday: the Sunday on or before a date
getWeekStartSunday(n) == n - getDay(n)

\* ------------------------------------------------ grid-layout.ts
Consts(cw, pad, ch, wk) ==
    [containerWidth |-> Num(cw), basePadding |-> pad, charWidth |-> ch,
     weekBoxMinWidth |-> wk]

GRID_CONSTANTS ==
    [ultrawide  |-> Consts(1440, 8, 8, 20),
     wide       |-> Consts(1190, 8, 8, 20),
     desktop    |-> Consts(668, 7, 8, 20),
     tablet     |-> Consts(573, 4, 7, 17),
     mobile     |-> Consts(737, 3, 6, 15),
     extraSmall |-> Consts(307, 2, 5, 12),
     compact    |->
        [ultrawide  |-> Consts(1440, 1, 8, 8),
         wide       |-> Consts(1190, 1, 8, 8),
         desktop    |-> Consts(668, 1, 8, 8),
         tablet     |-> Consts(573, 1, 7, 6),
         mobile     |-> Consts(461, 0, 6, 5),
         extraSmall |-> Consts(307, 0, 5, 4)]]

Breakpoints == {"ultrawide", "wide", "desktop", "tablet", "mobile", "extraSmall"}

\* every entry of the static breakpoint table
StaticEntries ==
    {GRID_CONSTANTS[b] : b \in Breakpoints}
        \cup {GRID_CONSTANTS.compact[b] : b \in Breakpoints}

calculateDynamicConstants(cWidth, cm) ==
    LET charWidth ==
            IF cm
            THEN IF JsLeq(cWidth, 480) THEN 7
                 ELSE IF JsLeq(cWidth, 768) THEN 8
                 ELSE 10
            ELSE IF JsLt(cWidth, 350) THEN 5
                 ELSE IF JsLt(cWidth, 500) THEN 6
                 ELSE IF JsLt(cWidth, 650) THEN 7
                 ELSE 8
        basePadding ==
            IF cm THEN 2 ELSE ClampFloorDiv(cWidth, 150, 2, 8)
        weekBoxMinWidth ==
            IF cm
            THEN IF JsLeq(cWidth, 768) THEN 14 ELSE 16
            ELSE ClampFloorDiv(cWidth, 50, 12, 20)
    IN  [containerWidth |-> SafeWidth(cWidth),
         basePadding |-> basePadding,
         charWidth |-> charWidth,
         weekBoxMinWidth |-> weekBoxMinWidth]

BreakpointOf(width) ==
    IF width < 480 THEN "extraSmall"
    ELSE IF width <= 768 THEN "mobile"
    ELSE IF width < 1024 THEN "tablet"
    ELSE IF width < 1400 THEN "desktop"
    ELSE IF width < 1800 THEN "wide"
    ELSE "ultrawide"

\* the guard of getResponsiveConstants: measuredWidth && measuredWidth > 0
UsesMeasuredWidth(mw) == JsTruthy(mw) /\ JsGtZero(mw)

getResponsiveConstants(cm, mw, win) ==
    IF UsesMeasuredWidth(mw) THEN calculateDynamicConstants(mw, cm)
    ELSE IF ~win.defined
         THEN (IF cm THEN GRID_CONSTANTS.compact.desktop
                     ELSE GRID_CONSTANTS.desktop)
         ELSE IF cm THEN GRID_CONSTANTS.compact[BreakpointOf(win.innerWidth)]
                    ELSE GRID_CONSTANTS[BreakpointOf(win.innerWidth)]

\* faulty variant of calculateWeekCellWidth: the compact branch is missing,
\* so the cell width follows the viewport in both modes
calculateWeekCellWidthByViewport(cm, win) ==
    LET viewportWidth == IF win.defined THEN win.innerWidth ELSE 1200
    IN  IF viewportWidth <= 768 THEN 18 ELSE 26

calculateWeekCellWidth(cm, win) ==
    LET borderWidth == 2
        gapWidth == 1
    IN  IF cm THEN 4 + 2 + borderWidth + gapWidth
        ELSE LET viewportWidth ==
                     IF win.defined THEN win.innerWidth ELSE 1200
             IN  IF viewportWidth <= 768 THEN 18 ELSE 26

calculateBoxWidth(label, cm, mw, win) ==
    LET constants == getResponsiveConstants(cm, mw, win)
        textWidth == Utf16Len(label) * constants.charWidth
        totalPadding == constants.basePadding * 2
    IN  textWidth + totalPadding + 2 + 1

\* the width shouldBreakBeforeBox tests: chosen by the label's truthiness
nextBoxWidth(nextBoxLabel, cm, mw, win) ==
    IF nextBoxLabel # <<>>
    THEN calculateBoxWidth(nextBoxLabel, cm, mw, win)
    ELSE calculateWeekCellWidth(cm, win)

shouldBreakBeforeBox(rowWidth, nextBoxLabel, cm, mw, win) ==
    LET constants == getResponsiveConstants(cm, mw, win)
        totalAfterAdd == rowWidth + nextBoxWidth(nextBoxLabel, cm, mw, win)
    IN  IntGeqJs(totalAfterAdd, constants.containerWidth)

\* the width processBoxesIntoRows accumulates: chosen by the box type
boxWidth(box, cm, mw, win) ==
    IF box.type = "week" THEN calculateWeekCellWidth(cm, win)
    ELSE calculateBoxWidth(box.label, cm, mw, win)

\* ----------------------------------------- labels (grid-layout.ts)
\* the decimal digits of a non-negative integer, as code points
RECURSIVE DigitString(_)
DigitString(n) ==
    IF n < 10 THEN <<48 + n>>
    ELSE Append(DigitString(n \div 10), 48 + (n % 10))

\* createBirthdayLabel: "\u{1F382}<age>" or "\u{1F382} <age> in <year>"
createBirthdayLabel(age, y, cm) ==
    IF cm THEN <<127874>> \o DigitString(age)
    ELSE <<127874, 32>> \o DigitString(age) \o <<32, 105, 110, 32>>
             \o DigitString(y)

\* [\u{1F1E0}-\u{1F1FF}]
IsRegionalIndicator(c) == 127456 <= c /\ c <= 127487

\* the single-code-point alternatives of emojiRegex
IsSingleEmoji(c) ==
    \/ 128512 <= c /\ c <= 128591      \* 1F600-1F64F
    \/ 127744 <= c /\ c <= 128511      \* 1F300-1F5FF
    \/ 128640 <= c /\ c <= 128767      \* 1F680-1F6FF
    \/ 9728 <= c /\ c <= 9983          \* 2600-26FF
    \/ 9984 <= c /\ c <= 10175         \* 2700-27BF
    \/ 129280 <= c /\ c <= 129535      \* 1F900-1F9FF
    \/ 127000 <= c /\ c <= 127600      \* 1F018-1F270
    \/ 126976 <= c /\ c <= 127023      \* 1F000-1F02F
    \/ 127136 <= c /\ c <= 127231      \* 1F0A0-1F0FF

\* extractFirstEmoji: the leftmost match of emojiRegex, <<>> for null.
\* (The flag fix-up after the match tests one UTF-16 unit against an astral
\* range and never applies.)
RECURSIVE extractFirstEmoji(_)
extractFirstEmoji(text) ==
    IF text = <<>> THEN <<>>
    ELSE IF /\ IsRegionalIndicator(text[1])
            /\ Len(text) >= 2
            /\ IsRegionalIndicator(text[2])
         THEN <<text[1], text[2]>>
    ELSE IF IsSingleEmoji(text[1]) THEN <<text[1]>>
    ELSE extractFirstEmoji(Tail(text))

createCompactEventLabel(headline) == extractFirstEmoji(headline)

\* faulty variant of shouldShowInCompact: every headline is shown
shouldShowAlways(headline) == TRUE

shouldShowInCompact(headline) == extractFirstEmoji(headline) # <<>>

\* ---------------------------------------------- processBoxesIntoRows
\* the loop state [rows, currentRow, currentRowWidth] after one iteration
\* of the for loop, placing box
placeBox(st, box, cm, mw, win) ==
    LET w == boxWidth(box, cm, mw, win)
        shouldBreakWidth ==
            shouldBreakBeforeBox(st.currentRowWidth, box.label, cm, mw, win)
    IN  IF shouldBreakWidth /\ Len(st.currentRow) > 0
        THEN [rows |-> Append(st.rows, st.currentRow),
              currentRow |-> <<box>>,
              currentRowWidth |-> w]
        ELSE [rows |-> st.rows,
              currentRow |-> Append(st.currentRow, box),
              currentRowWidth |-> st.currentRowWidth + w]

\* faulty variant of the epilogue: the final row is never pushed
finishRowsDropLast(st) == st.rows

\* after the loop: push the final row if it has content
finishRows(st) ==
    IF Len(st.currentRow) > 0 THEN Append(st.rows, st.currentRow) ELSE st.rows

\* one iteration of the for loop
RowStep ==
    /\ lpc = "loop"
    /\ i <= Len(boxes)
    /\ LET st == placeBox([rows |-> rows, currentRow |-> currentRow,
                           currentRowWidth |-> currentRowWidth],
                          boxes[i], compactMode, measuredWidth, window)
       IN  /\ rows' = st.rows
           /\ currentRow' = st.currentRow
           /\ currentRowWidth' = st.currentRowWidth
    /\ i' = i + 1
    /\ UNCHANGED <<boxes, compactMode, measuredWidth, window, lpc, invocation,
                   prevRows, prevWindow, gridVars>>

\* after the loop: return rows
RowFlush ==
    /\ lpc = "loop"
    /\ i > Len(boxes)
    /\ rows' = finishRows([rows |-> rows, currentRow |-> currentRow,
                           currentRowWidth |-> currentRowWidth])
    /\ lpc' = "done"
    /\ UNCHANGED <<boxes, compactMode, measuredWidth, window, currentRow,
                   currentRowWidth, i, invocation, prevRows, prevWindow,
                   gridVars>>

\* ============================================== WeeksGrid render body
\* mapping[date], with a missing key read as the empty list
EventsAt(mapping, date) ==
    IF date \in DOMAIN mapping THEN mapping[date] ELSE <<>>

\* events.map(event => ({...event, eventType}))
TagEvents(events, eventType) ==
    [n \in 1..Len(events) |->
        [headline |-> events[n].headline,
         milestone |-> events[n].milestone,
         color |-> events[n].color,
         eventType |-> eventType]]

\* faulty variant of the merge loop: merged[date] is assigned the source's
\* list instead of being appended to
pushSourceOverwrite(merged, source, eventType) ==
    [date \in DOMAIN merged \cup DOMAIN source |->
        IF date \in DOMAIN source THEN TagEvents(source[date], eventType)
        ELSE merged[date]]

\* Object.entries(source).forEach: merged[date] = [] if missing, then push
pushSource(merged, source, eventType) ==
    [date \in DOMAIN merged \cup DOMAIN source |->
        EventsAt(merged, date) \o
            (IF date \in DOMAIN source
             THEN TagEvents(source[date], eventType) ELSE <<>>)]

\* e.eventType === 'personal' && e.milestone
IsMilestone(e) == e.eventType = "personal" /\ e.milestone

HasMilestone(events) == \E n \in 1..Len(events) : IsMilestone(events[n])

\* getMergedEvents, first loop: merged[date] = personal events, tagged
MergePersonal ==
    /\ pc = "mergePersonal"
    /\ mergedEvents' = [date \in DOMAIN lifeEvents |->
                           TagEvents(lifeEvents[date], "personal")]
    /\ pc' = "mergeWorld"
    /\ UNCHANGED <<inputVars, containerWidth, milestoneWeeks, allBoxes, year,
                   colorVars, layoutVars, renderVars>>

\* getMergedEvents, second loop: world events if enabled
MergeWorld ==
    /\ pc = "mergeWorld"
    /\ mergedEvents' = IF APP_CONFIG.defaultShowWorldEvents
                       THEN pushSource(mergedEvents, worldEvents, "world")
                       ELSE mergedEvents
    /\ pc' = "mergePresidents"
    /\ UNCHANGED <<inputVars, containerWidth, milestoneWeeks, allBoxes, year,
                   colorVars, layoutVars, renderVars>>

\* getMergedEvents, third loop: presidents if enabled; then the render body
\* starts its year loop
MergePresidents ==
    /\ pc = "mergePresidents"
    /\ mergedEvents' = IF APP_CONFIG.defaultShowPresidents
                       THEN pushSource(mergedEvents, usPresidents, "president")
                       ELSE mergedEvents
    /\ pc' = "year"
    /\ UNCHANGED <<inputVars, containerWidth, milestoneWeeks, allBoxes, year,
                   colorVars, layoutVars, renderVars>>

\* const startDate = new Date(weeksConfig.startDate)
startDate == ParseDate(weeksConfig.startDate)

\* new Date(y, startDate.getMonth(), startDate.getDate())
anniversary(y) == MkDate(y, getMonth(startDate), getDate(startDate))

\* the birthday box of year y (emitted when age > 0)
birthdayBoxOf(y, cm) ==
    [type |-> "birthday",
     label |-> createBirthdayLabel(y - weeksConfig.startYear, y, cm),
     date |-> formatDateString(anniversary(y)),
     year |-> y,
     eventType |-> "none"]

\* the anchor date of week w in year y
weekDateOf(y, w) ==
    IF y - weeksConfig.startYear = 0
    THEN IF w = 0 THEN getWeekStartSunday(startDate)
         ELSE getWeekStartSunday(startDate) + (w * 7)
    ELSE getWeekStartSunday(anniversary(y) + (w * 7))

\* the 7-day scan: the first day (0..6) of the week, before nextBirthday,
\* whose event list is non-empty; -1 if there is none
RECURSIVE firstEventDay(_, _, _, _)
firstEventDay(merged, weekDate, nextBirthday, day) ==
    IF day >= 7 THEN -1
    ELSE IF weekDate + day >= nextBirthday THEN -1
    ELSE IF Len(EventsAt(merged, formatDateString(weekDate + day))) > 0
         THEN day
    ELSE firstEventDay(merged, weekDate, nextBirthday, day + 1)

\* eventsForWeek.find(personal && milestone) || eventsForWeek[0]
primaryEventOf(events) ==
    IF HasMilestone(events)
    THEN events[CHOOSE n \in 1..Len(events) :
                    /\ IsMilestone(events[n])
                    /\ \A k \in 1..(n - 1) : ~ IsMilestone(events[k])]
    ELSE events[1]

\* the box emitted for a week that is not skipped
weekBoxOf(merged, y, weekDate, cm) ==
    LET nextBirthday == anniversary(y + 1)
        weekDateStr == formatDateString(weekDate)
        day == firstEventDay(merged, weekDate, nextBirthday, 0)
        eventsForWeek ==
            IF day >= 0 THEN EventsAt(merged, formatDateString(weekDate + day))
            ELSE EventsAt(merged, weekDateStr)
        emptyWeek == [type |-> "week", label |-> <<>>, date |-> weekDateStr,
                      year |-> y, eventType |-> "none"]
    IN  IF Len(eventsForWeek) > 0
        THEN LET primaryEvent == primaryEventOf(eventsForWeek)
             IN  IF cm /\ ~ shouldShowInCompact(primaryEvent.headline)
                 THEN emptyWeek
                 ELSE [type |-> "event",
                       label |-> IF cm
                                 THEN createCompactEventLabel(primaryEvent.headline)
                                 ELSE primaryEvent.headline,
                       date |-> weekDateStr,
                       year |-> y,
                       eventType |-> primaryEvent.eventType]
        ELSE emptyWeek

\* milestoneWeeks.add(weekDateStr) inside the scan: the first day with
\* events carries a milestone-flagged personal event
scanAddsMilestone(merged, y, weekDate) ==
    LET day == firstEventDay(merged, weekDate, anniversary(y + 1), 0)
    IN  /\ day >= 0
        /\ HasMilestone(EventsAt(merged, formatDateString(weekDate + day)))

\* faulty variant of the week loop bounds: week 0 is walked in every year
weekIndicesFromZero(y) == [k \in 1..53 |-> k - 1]

\* the week indices of year y's loop, in order: startWeek..52
weekIndices(y) ==
    LET startWeek == IF y - weeksConfig.startYear = 0 THEN 0 ELSE 1
    IN  [k \in 1..(53 - startWeek) |-> startWeek + k - 1]

\* faulty variant of the skip test: a week is skipped as soon as its last
\* day reaches the next birthday
emittedWeeksWholeOnly(y) ==
    SelectSeq(weekIndices(y),
              LAMBDA w : ~ (weekDateOf(y, w) + 6 >= anniversary(y + 1)))

\* the week indices that are not skipped (weekDate >= nextBirthday: continue)
emittedWeeks(y) ==
    SelectSeq(weekIndices(y),
              LAMBDA w : ~ (weekDateOf(y, w) >= anniversary(y + 1)))

\* the boxes the week loop of year y pushes, in order
weekBoxesOf(merged, y, cm) ==
    LET ws == emittedWeeks(y)
    IN  [k \in 1..Len(ws) |-> weekBoxOf(merged, y, weekDateOf(y, ws[k]), cm)]

\* faulty variant of the scan: the milestone is recorded only after the
\* compact suppression, so a suppressed week records nothing
scannedMilestoneWeeksAfterSuppression(merged, y) ==
    LET ws == emittedWeeks(y)
    IN  {formatDateString(weekDateOf(y, ws[k])) :
            k \in {n \in 1..Len(ws) :
                      /\ scanAddsMilestone(merged, y, weekDateOf(y, ws[n]))
                      /\ weekBoxOf(merged, y, weekDateOf(y, ws[n]),
                                   compactMode).type = "event"}}

\* the dates the week loop of year y adds to milestoneWeeks
scannedMilestoneWeeks(merged, y) ==
    LET ws == emittedWeeks(y)
    IN  {formatDateString(weekDateOf(y, ws[k])) :
            k \in {n \in 1..Len(ws) :
                      scanAddsMilestone(merged, y, weekDateOf(y, ws[n]))}}

\* one iteration of the year loop: the birthday box when age > 0, then the
\* weeks from startWeek to 52
YearStep ==
    /\ pc = "year"
    /\ year <= weeksConfig.endYear
    /\ allBoxes' =
           (IF year - weeksConfig.startYear > 0
            THEN Append(allBoxes, birthdayBoxOf(year, compactMode))
            ELSE allBoxes)
               \o weekBoxesOf(mergedEvents, year, compactMode)
    /\ milestoneWeeks' =
           milestoneWeeks \cup scannedMilestoneWeeks(mergedEvents, year)
    /\ year' = year + 1
    /\ UNCHANGED <<inputVars, containerWidth, mergedEvents, colorVars, pc,
                   layoutVars, renderVars>>

\* [...allBoxes].sort((a, b) => new Date(a.date) - new Date(b.date)):
\* a stable sort by date
sortByDate(bs) ==
    SortSeq(bs, LAMBDA a, b : ParseDate(a.date) < ParseDate(b.date))

\* the palettes generateMilestoneColors may return
Palettes == {<<"A", "B">>, <<"A", "B", "C">>}

\* generateMilestoneColors(lifeEvents): without a milestone event no box
\* advances the index and only the first colour is read, so one palette
\* stands for all of them
generateMilestoneColors(events) ==
    IF \E d \in DOMAIN events :
           \E n \in 1..Len(events[d]) : events[d][n].milestone
    THEN Palettes
    ELSE {<<"A", "B">>}

\* the dates added to milestoneWeeks before the colour pass: every merged
\* date with a milestone, and every event box whose date has one
collectedMilestoneDates(merged, bs) ==
    {date \in DOMAIN merged : HasMilestone(merged[date])}
        \cup {bs[n].date : n \in {k \in 1..Len(bs) :
                 /\ bs[k].type = "event"
                 /\ HasMilestone(EventsAt(merged, bs[k].date))}}

\* the year loop is over: initialise the colour pass, collect the milestone
\* dates and sort the boxes. The palette (generateMilestoneColors, an
\* external collaborator) is first read here, so its value is drawn here;
\* it is a function of lifeEvents, so a re-render gets the same palette.
BeginColorPass ==
    /\ pc = "year"
    /\ year > weeksConfig.endYear
    /\ milestoneColors' \in (IF milestoneColors = <<>>
                             THEN generateMilestoneColors(lifeEvents)
                             ELSE {milestoneColors})
    /\ colorIndex' = 0
    /\ currentBoxColor' = milestoneColors'[1]
    /\ boxColorMap' = <<>>
    /\ colorTrace' = <<>>
    /\ milestoneWeeks' = milestoneWeeks
                            \cup collectedMilestoneDates(mergedEvents, allBoxes)
    /\ sortedBoxes' = sortByDate(allBoxes)
    /\ pos' = 1
    /\ pc' = "color"
    /\ UNCHANGED <<weeksConfig, lifeEvents, worldEvents, usPresidents,
                   APP_CONFIG, timeZone, containerWidth, mergedEvents, allBoxes, year,
                   layoutVars, renderVars>>

\* colorIndex after the milestone check at a box
indexAfter(index, box, weeks) ==
    IF box.date \in weeks THEN index + 1 ELSE index

\* faulty variant of the milestone check: the palette is read before the
\* index is incremented
colorAfterAdvanceStale(color, index, box, weeks, palette) ==
    IF box.date \in weeks /\ index + 1 < Len(palette)
    THEN palette[index + 1]
    ELSE color

\* currentBoxColor after the milestone check at a box
colorAfterAdvance(color, index, box, weeks, palette) ==
    IF box.date \in weeks /\ index + 1 < Len(palette)
    THEN palette[index + 2]
    ELSE color

\* faulty variant of the override test: any event with a colour applies
appliesAnyColor(e) == e.color # ""

\* an event whose colour the override loop applies
appliesOverride(e) ==
    e.eventType = "personal" /\ e.milestone /\ e.color # ""

\* currentBoxColor after the override loop over the events at a date
RECURSIVE colorAfterOverrides(_, _)
colorAfterOverrides(color, events) ==
    IF events = <<>> THEN color
    ELSE colorAfterOverrides(
             IF appliesOverride(Head(events)) THEN Head(events).color
             ELSE color,
             Tail(events))

\* one iteration of the colour pass
ColorStep ==
    /\ pc = "color"
    /\ pos <= Len(sortedBoxes)
    /\ LET box == sortedBoxes[pos]
           index == indexAfter(colorIndex, box, milestoneWeeks)
           color == colorAfterOverrides(
                        colorAfterAdvance(currentBoxColor, colorIndex, box,
                                          milestoneWeeks, milestoneColors),
                        EventsAt(mergedEvents, box.date))
       IN  /\ colorIndex' = index
           /\ currentBoxColor' = color
           /\ boxColorMap' = [date \in DOMAIN boxColorMap \cup {box.date} |->
                                 IF date = box.date THEN color
                                 ELSE boxColorMap[date]]
           /\ colorTrace' = Append(colorTrace,
                                   [index |-> index, color |-> color])
    /\ pos' = pos + 1
    /\ UNCHANGED <<inputVars, containerWidth, walkVars, sortedBoxes, pc,
                   layoutVars, renderVars>>

\* the colour pass is over: the render body calls
\* processBoxesIntoRows(allBoxes, isCompactMode,
\*                      containerWidth > 0 ? containerWidth : undefined)
StartRows ==
    /\ pc = "color"
    /\ pos > Len(sortedBoxes)
    /\ boxes' = allBoxes
    /\ measuredWidth' = IF JsGtZero(containerWidth) THEN containerWidth
                        ELSE Undefined
    /\ rows' = <<>>
    /\ currentRow' = <<>>
    /\ currentRowWidth' = 0
    /\ i' = 1
    /\ lpc' = "loop"
    /\ pc' = "rows"
    /\ UNCHANGED <<inputVars, containerWidth, walkVars, colorVars, compactMode,
                   window, invocation, prevRows, prevWindow, renderVars>>

\* the render body has run to its end
RenderComplete == pc = "rows" /\ lpc = "done"

\* the component renders again: the render body runs from the top
RenderAgain ==
    /\ mergedEvents' = <<>>
    /\ milestoneWeeks' = {}
    /\ allBoxes' = <<>>
    /\ year' = weeksConfig.startYear
    /\ sortedBoxes' = <<>>
    /\ pos' = 1
    /\ colorIndex' = 0
    /\ currentBoxColor' = ""
    /\ boxColorMap' = <<>>
    /\ colorTrace' = <<>>
    /\ pc' = "mergePersonal"
    /\ boxes' = <<>>
    /\ measuredWidth' = Undefined
    /\ rows' = <<>>
    /\ currentRow' = <<>>
    /\ currentRowWidth' = 0
    /\ i' = 1
    /\ lpc' = "idle"

\* what a render body computes; it stays as it is between two renders
workVars == <<walkVars, colorVars, pc, boxes, measuredWidth, rows, currentRow,
              currentRowWidth, i, lpc>>

\* the parent changes the isCompactMode prop: a render is scheduled, and
\* the effect that depends on isCompactMode will run after it. The
\* results of the render just completed are kept for comparison.
ChangeCompactMode ==
    /\ RenderComplete
    /\ renderNo = 1
    /\ renderNo' = 2
    /\ prevAllBoxes' = allBoxes
    /\ prevBoxColorMap' = boxColorMap
    /\ prevColorTrace' = colorTrace
    /\ compactMode' = ~ compactMode
    /\ renderPending' = TRUE
    /\ depsChanged' = TRUE
    /\ UNCHANGED <<inputVars, containerWidth, workVars, effectPending, window,
                   invocation, prevRows, prevWindow, observerConnected>>

\* React runs the scheduled render, after the effects of the preceding
\* render: the render body starts on the current props and state
Rerender ==
    /\ RenderComplete
    /\ renderPending
    /\ ~ effectPending
    /\ renderPending' = FALSE
    /\ effectPending' = depsChanged
    /\ depsChanged' = FALSE
    /\ RenderAgain
    /\ UNCHANGED <<inputVars, containerWidth, compactMode, window, invocation,
                   prevRows, prevWindow, renderNo, prevAllBoxes,
                   prevBoxColorMap, prevColorTrace, observerConnected>>

\* the widths the grid container may be found to have (rect.width,
\* contentRect.width): 0 while it is not laid out, 400.5 afterwards
RectWidths == {Num(0), Half(400)}

\* setContainerWidth(newWidth) under the guard newWidth > 0; a state equal
\* to the current one schedules no render
SetsContainerWidth(newWidth) ==
    JsGtZero(newWidth) /\ newWidth # containerWidth

\* the effects of a committed render. After the mount both effects run:
\* the first connects the ResizeObserver and calls measureContainer, the
\* second calls measureContainer again (same rect, same state); after a
\* change of isCompactMode the second runs alone. measureContainer (the
\* ref is attached by then) returns to React, which renders later
MeasureContainer ==
    /\ RenderComplete
    /\ effectPending
    /\ effectPending' = FALSE
    /\ observerConnected' = TRUE
    /\ \E newWidth \in RectWidths :
           IF SetsContainerWidth(newWidth)
           THEN /\ containerWidth' = newWidth
                /\ renderPending' = TRUE
           ELSE UNCHANGED <<containerWidth, renderPending>>
    /\ UNCHANGED <<inputVars, workVars, compactMode, window, invocation,
                   prevRows, prevWindow, renderNo, prevAllBoxes,
                   prevBoxColorMap, prevColorTrace, depsChanged>>

\* the ResizeObserver callback, once the mount effect has connected the
\* observer: the container was resized (a callback whose width is not
\* positive, or is the current state, changes nothing); it returns to the
\* browser and React renders later
ResizeObserved ==
    /\ RenderComplete
    /\ observerConnected
    /\ \E newWidth \in RectWidths :
           /\ SetsContainerWidth(newWidth)
           /\ containerWidth' = newWidth
    /\ renderPending' = TRUE
    /\ UNCHANGED <<inputVars, workVars, compactMode, window, invocation,
                   prevRows, prevWindow, renderNo, prevAllBoxes,
                   prevBoxColorMap, prevColorTrace, effectPending,
                   depsChanged, observerConnected>>

\* ------------------------------------------------ WeeksGrid inputs
\* events: [headline, milestone, color]; color "" when the event has none
evJob ==      \* "Started job"
    [headline |-> <<83, 116, 97, 114, 116, 101, 100, 32, 106, 111, 98>>,
     milestone |-> TRUE, color |-> ""]
evLaunch ==   \* "\u{1F680} Launched"
    [headline |-> <<128640, 32, 76, 97, 117, 110, 99, 104, 101, 100>>,
     milestone |-> TRUE, color |-> "X"]
evTrip ==     \* "Trip"
    [headline |-> <<84, 114, 105, 112>>, milestone |-> FALSE, color |-> "Y"]
evParty ==    \* "\u{1F389} Party"
    [headline |-> <<127881, 32, 80, 97, 114, 116, 121>>,
     milestone |-> FALSE, color |-> ""]
evNews ==     \* "News"
    [headline |-> <<78, 101, 119, 115>>, milestone |-> FALSE, color |-> "Z"]
evTerm ==     \* "\u{1F1FA}\u{1F1F8} Term"
    [headline |-> <<127482, 127480, 32, 84, 101, 114, 109>>,
     milestone |-> FALSE, color |-> ""]

evBlank ==    \* "" (an empty headline)
    [headline |-> <<>>, milestone |-> FALSE, color |-> ""]

\* what one date carries in each source: <<>> when the source has no such
\* key, <<list>> when it maps the date to list
DayKinds ==
    {[life |-> <<<<evJob>>>>, world |-> <<>>, pres |-> <<>>],
     [life |-> <<<<evLaunch>>>>, world |-> <<>>, pres |-> <<>>],
     [life |-> <<<<evTrip>>>>, world |-> <<>>, pres |-> <<>>],
     [life |-> <<<<evParty, evJob>>>>, world |-> <<>>, pres |-> <<>>],
     [life |-> <<<<evBlank, evParty>>>>, world |-> <<>>, pres |-> <<>>],
     [life |-> <<<<>>>>, world |-> <<<<evNews>>>>, pres |-> <<>>],
     [life |-> <<<<evJob>>>>, world |-> <<<<evNews>>>>, pres |-> <<<<evTerm>>>>],
     [life |-> <<>>, world |-> <<<<evNews>>>>, pres |-> <<<<evTerm>>>>]}

\* dates that may carry events, for a birth date of 2000-01-15 (a Saturday):
\* a Sunday anchor, a Thursday and the next Sunday; the first anniversary
\* (a Monday) and the day after it
EventDates ==
    {<<2000, 5, 28>>, <<2000, 6, 1>>, <<2000, 6, 4>>, <<2001, 1, 15>>,
     <<2001, 1, 16>>}

\* the kinds used when two dates carry events
PairKinds ==
    {k \in DayKinds : k.life # <<>> /\ Len(k.life[1]) <= 1 /\ k.pres = <<>>}

\* the pairs of dates that carry events together: within one week, in
\* consecutive weeks, in different years of life, and on consecutive days
DatePairs ==
    {{<<2000, 5, 28>>, <<2000, 6, 1>>}, {<<2000, 5, 28>>, <<2000, 6, 4>>},
     {<<2000, 6, 1>>, <<2000, 6, 4>>}, {<<2000, 6, 4>>, <<2001, 1, 15>>},
     {<<2001, 1, 15>>, <<2001, 1, 16>>}}

\* three dates of one year of life: a key of all three sources, a key of
\* worldEvents only and a key of usPresidents only
MixedSources ==
    [date \in {<<2000, 5, 28>>, <<2000, 6, 1>>, <<2000, 6, 4>>} |->
        IF date = <<2000, 5, 28>>
        THEN [life |-> <<<<evJob>>>>, world |-> <<<<evNews>>>>,
              pres |-> <<<<evTerm>>>>]
        ELSE IF date = <<2000, 6, 1>>
        THEN [life |-> <<>>, world |-> <<<<evNews>>>>, pres |-> <<>>]
        ELSE [life |-> <<>>, world |-> <<>>, pres |-> <<<<evTerm>>>>]]

\* no event, events on one date, events on two dates, or the three dates
\* of MixedSources
Scenarios ==
    {<<>>}
        \cup UNION {[{a} -> DayKinds] : a \in EventDates}
        \cup UNION {[p -> PairKinds] : p \in DatePairs}
        \cup {MixedSources}

SourceOf(sc, field) ==
    [date \in {d \in DOMAIN sc : sc[d][field] # <<>>} |-> sc[date][field][1]]

UsesOtherSources(sc) ==
    \E d \in DOMAIN sc : sc[d].world # <<>> \/ sc[d].pres # <<>>

BirthDates ==
    {<<1999, 1, d>> : d \in 10..16} \cup {<<2000, 1, d>> : d \in 9..15}
        \cup {<<2000, 2, 29>>, <<2000, 3, 1>>, <<2000, 1, 1>>}

\* UTC stands for itself and every zone east of it, west for every zone
\* west of it
Zones == {"UTC", "west"}

\* processBoxesIntoRows has not been called yet
LayoutIdle ==
    /\ boxes = <<>>
    /\ measuredWidth = Undefined
    /\ window = [defined |-> TRUE, innerWidth |-> 1500]
    /\ rows = <<>>
    /\ currentRow = <<>>
    /\ currentRowWidth = 0
    /\ i = 1
    /\ lpc = "idle"
    /\ invocation = 1
    /\ prevRows = <<>>
    /\ prevWindow = [defined |-> FALSE, innerWidth |-> 0]

\* the render body starts
GridStart ==
    /\ mergedEvents = <<>>
    /\ milestoneWeeks = {}
    /\ allBoxes = <<>>
    /\ year = weeksConfig.startYear
    /\ sortedBoxes = <<>>
    /\ pos = 1
    /\ colorIndex = 0
    /\ milestoneColors = <<>>
    /\ currentBoxColor = ""
    /\ boxColorMap = <<>>
    /\ colorTrace = <<>>
    /\ pc = "mergePersonal"
    /\ renderNo = 1
    /\ prevAllBoxes = <<>>
    /\ prevBoxColorMap = <<>>
    /\ prevColorTrace = <<>>
    /\ containerWidth = Num(0)
    /\ effectPending = TRUE
    /\ renderPending = FALSE
    /\ depsChanged = FALSE
    /\ observerConnected = FALSE
    /\ compactMode = FALSE   \* ChangeCompactMode toggles it

\* calendar family: every weekday and leap-year position of the birth date,
\* no events
InitCalendar ==
    /\ \E b \in BirthDates, span \in 1..MaxAge :
           weeksConfig = [startDate |-> b, startYear |-> b[1],
                          endYear |-> b[1] + span]
    /\ lifeEvents = <<>>
    /\ worldEvents = <<>>
    /\ usPresidents = <<>>
    /\ APP_CONFIG = [defaultShowWorldEvents |-> TRUE,
                     defaultShowPresidents |-> TRUE]
    /\ timeZone \in Zones

\* event family: birth date 2000-01-15, walked to the end of age 1
InitEvents ==
    /\ weeksConfig = [startDate |-> <<2000, 1, 15>>, startYear |-> 2000,
                      endYear |-> 2001]
    /\ \E sc \in Scenarios :
           /\ lifeEvents = SourceOf(sc, "life")
           /\ worldEvents = SourceOf(sc, "world")
           /\ usPresidents = SourceOf(sc, "pres")
           /\ APP_CONFIG \in
                  IF UsesOtherSources(sc) /\ Cardinality(DOMAIN sc) # 2
                  THEN [defaultShowWorldEvents : BOOLEAN,
                        defaultShowPresidents : BOOLEAN]
                  ELSE {[defaultShowWorldEvents |-> TRUE,
                         defaultShowPresidents |-> TRUE]}
    /\ timeZone \in Zones

Init ==
    /\ InitCalendar \/ InitEvents
    /\ GridStart
    /\ LayoutIdle

Next ==
    \/ MergePersonal
    \/ MergeWorld
    \/ MergePresidents
    \/ YearStep
    \/ BeginColorPass
    \/ ColorStep
    \/ StartRows
    \/ RowStep
    \/ RowFlush
    \/ ChangeCompactMode
    \/ Rerender
    \/ MeasureContainer
    \/ ResizeObserved

Spec == Init /\ [][Next]_vars

\* ============================= processBoxesIntoRows studied on its own
ShortLabel == <<83, 116>>
EmojiLabel == <<128640>>
LongLabel == [n \in 1..LongLabelLen |-> 97]

\* every pairing of a box type with an empty or non-empty label
BoxKinds ==
    {[type |-> "week", label |-> <<>>],
     [type |-> "event", label |-> ShortLabel],
     [type |-> "event", label |-> LongLabel],
     [type |-> "birthday", label |-> EmojiLabel],
     [type |-> "week", label |-> ShortLabel],
     [type |-> "event", label |-> <<>>]}

MeasuredWidths ==
    {Undefined, NaN, PosInf, NegInf, Num(0), Num(-5), Num(50), Num(400),
     Half(349)}

Windows ==
    {[defined |-> FALSE, innerWidth |-> 0],
     [defined |-> TRUE, innerWidth |-> 400],
     [defined |-> TRUE, innerWidth |-> 768],
     [defined |-> TRUE, innerWidth |-> 1500]}

BoxSeqs ==
    UNION {{[n \in 1..len |->
                [type |-> f[n].type, label |-> f[n].label,
                 date |-> <<2000, 1, n>>]] : f \in [1..len -> BoxKinds]}
           : len \in 0..MaxBoxes}

\* the WeeksGrid variables when processBoxesIntoRows is called directly
GridIdle ==
    /\ weeksConfig = [startDate |-> <<2000, 1, 1>>, startYear |-> 2000,
                      endYear |-> 2000]
    /\ lifeEvents = <<>>
    /\ worldEvents = <<>>
    /\ usPresidents = <<>>
    /\ APP_CONFIG = [defaultShowWorldEvents |-> FALSE,
                     defaultShowPresidents |-> FALSE]
    /\ milestoneColors = <<>>
    /\ timeZone = "UTC"
    /\ containerWidth = Num(0)
    /\ effectPending = FALSE
    /\ renderPending = FALSE
    /\ depsChanged = FALSE
    /\ observerConnected = FALSE
    /\ mergedEvents = <<>>
    /\ milestoneWeeks = {}
    /\ allBoxes = <<>>
    /\ year = 2000
    /\ sortedBoxes = <<>>
    /\ pos = 1
    /\ colorIndex = 0
    /\ currentBoxColor = ""
    /\ boxColorMap = <<>>
    /\ colorTrace = <<>>
    /\ pc = "none"
    /\ renderNo = 1
    /\ prevAllBoxes = <<>>
    /\ prevBoxColorMap = <<>>
    /\ prevColorTrace = <<>>

InitLayout ==
    /\ GridIdle
    /\ boxes \in BoxSeqs
    /\ compactMode \in BOOLEAN
    /\ measuredWidth \in MeasuredWidths
    /\ window \in Windows
    /\ rows = <<>>
    /\ currentRow = <<>>
    /\ currentRowWidth = 0
    /\ i = 1
    /\ lpc = "loop"
    /\ invocation = 1
    /\ prevRows = <<>>
    /\ prevWindow = [defined |-> FALSE, innerWidth |-> 0]

\* a caller of the function alone invokes it again with the same explicit
\* arguments; window.innerWidth may have changed in between
Reinvoke ==
    /\ pc = "none"
    /\ lpc = "done"
    /\ invocation = 1
    /\ invocation' = 2
    /\ prevRows' = rows
    /\ prevWindow' = window
    /\ window' \in Windows
    /\ rows' = <<>>
    /\ currentRow' = <<>>
    /\ currentRowWidth' = 0
    /\ i' = 1
    /\ lpc' = "loop"
    /\ UNCHANGED <<boxes, compactMode, measuredWidth, gridVars>>

NextLayout == RowStep \/ RowFlush \/ Reinvoke

SpecLayout == InitLayout /\ [][NextLayout]_vars

\* ================== the component and the function on its own, together
\* a behaviour is either the renders of the component on the event family
\* or the invocations of processBoxesIntoRows on its own
InitPipeline ==
    \/ InitEvents /\ GridStart /\ LayoutIdle
    \/ InitLayout

NextPipeline == Next \/ Reinvoke

SpecPipeline == InitPipeline /\ [][NextPipeline]_vars

\* ============================================================ claims
\* the calendar day a date string names
CalendarDay(str) == MkDate(str[1], str[2], str[3])

RECURSIVE Flatten(_)
Flatten(rs) == IF rs = <<>> THEN <<>> ELSE Head(rs) \o Flatten(Tail(rs))

RECURSIVE RowWidth(_, _, _, _)
RowWidth(row, cm, mw, win) ==
    IF row = <<>> THEN 0
    ELSE boxWidth(Head(row), cm, mw, win) + RowWidth(Tail(row), cm, mw, win)

\* C1: the rows returned by processBoxesIntoRows are all non-empty and their
\* concatenation in row order is exactly the input sequence; an empty input
\* gives no rows.
C1_RowsPartitionInput ==
    lpc = "done" =>
        /\ \A r \in 1..Len(rows) : rows[r] # <<>>
        /\ Flatten(rows) = boxes
        /\ (boxes = <<>> => rows = <<>>)

C1_Witness ==
    /\ lpc = "done"
    /\ Len(boxes) = MaxBoxes
    /\ Len(rows) >= 2
    /\ \E r \in 1..Len(rows) : Len(rows[r]) >= 2

\* C2 (as claimed): every returned row that holds two or more boxes has a
\* total accumulated pixel width that does not exceed the effective
\* container width, for any combination of box type and label.
C2_MultiBoxRowFits ==
    lpc = "done" =>
        \A r \in 1..Len(rows) :
            Len(rows[r]) >= 2 =>
                ~ IntGeqJs(RowWidth(rows[r], compactMode, measuredWidth, window) - 1,
                           getResponsiveConstants(compactMode, measuredWidth,
                                                  window).containerWidth)

\* the year loop has ended: allBoxes is the complete emitted sequence
WalkDone == pc = "year" /\ year > weeksConfig.endYear

WeekTypeCount(bs, y) ==
    Cardinality({k \in 1..Len(bs) :
                    bs[k].year = y /\ bs[k].type \in {"week", "event"}})

BirthdayCount(bs, y) ==
    Cardinality({k \in 1..Len(bs) : bs[k].year = y /\ bs[k].type = "birthday"})

\* C3: every completed year iteration has emitted 52 or 53 week-type boxes
\* (type 'week' or 'event') and one birthday box when age > 0, none when
\* age = 0.
C3_YearBoxCounts ==
    pc = "year" =>
        \A y \in weeksConfig.startYear..(year - 1) :
            /\ WeekTypeCount(allBoxes, y) \in {52, 53}
            /\ BirthdayCount(allBoxes, y) =
                   IF y - weeksConfig.startYear > 0 THEN 1 ELSE 0

\* a leap-day birth walked to the last age: 53 week boxes at age 0, 52 and
\* a birthday box afterwards
C3_Witness ==
    /\ WalkDone
    /\ weeksConfig.startDate = <<2000, 2, 29>>
    /\ weeksConfig.endYear >= weeksConfig.startYear + 2
    /\ WeekTypeCount(allBoxes, weeksConfig.startYear) = 53
    /\ WeekTypeCount(allBoxes, weeksConfig.endYear) = 52
    /\ BirthdayCount(allBoxes, weeksConfig.endYear) = 1

\* C4: in the emitted box sequence dates never decrease from a box to the
\* next, and two boxes have the same date only if one of them is a birthday
\* box.
C4_DatesNonDecreasing ==
    WalkDone =>
        /\ \A k \in 1..(Len(allBoxes) - 1) :
               CalendarDay(allBoxes[k].date) <= CalendarDay(allBoxes[k + 1].date)
        /\ \A j \in 1..Len(allBoxes) : \A k \in (j + 1)..Len(allBoxes) :
               allBoxes[j].date = allBoxes[k].date =>
                   \/ allBoxes[j].type = "birthday"
                   \/ allBoxes[k].type = "birthday"

\* a walk over two year boundaries, with an event box among the boxes
C4_Witness ==
    /\ WalkDone
    /\ weeksConfig.endYear = weeksConfig.startYear + 1
    /\ \E k \in 1..Len(allBoxes) : allBoxes[k].type = "event"
    /\ \E k \in 2..(Len(allBoxes) - 1) :
           /\ allBoxes[k].type = "birthday"
           /\ allBoxes[k - 1].year < allBoxes[k + 1].year

\* the colour pass has visited every box
ColorDone == pc = "color" /\ pos > Len(sortedBoxes)

\* the dates of the milestone-flagged personal events
MilestoneDates ==
    {d \in DOMAIN lifeEvents :
        \E n \in 1..Len(lifeEvents[d]) : lifeEvents[d][n].milestone}

\* the date lies between the first week anchor and the birthday that ends
\* the last walked year
InWalkedRange(d) ==
    /\ CalendarDay(d) >= getWeekStartSunday(startDate)
    /\ CalendarDay(d) < anniversary(weeksConfig.endYear + 1)

\* the position in sortedBoxes of the last box dated on or before d
CoveringPos(d) ==
    CHOOSE k \in 1..Len(sortedBoxes) :
        /\ CalendarDay(sortedBoxes[k].date) <= CalendarDay(d)
        /\ \A m \in (k + 1)..Len(sortedBoxes) :
               CalendarDay(sortedBoxes[m].date) > CalendarDay(d)

\* colorIndex and currentBoxColor when the pass reaches position k
IndexBefore(k) == IF k = 1 THEN 0 ELSE colorTrace[k - 1].index
ColorBefore(k) == IF k = 1 THEN milestoneColors[1] ELSE colorTrace[k - 1].color

\* C5 (as claimed): for every milestone-flagged personal event dated inside
\* the walked range the palette index is advanced at the box covering the
\* event's week, which so has a strictly higher index than the box before
\* it; and the index never decreases along the sequence.
C5_MilestoneAdvancesIndex ==
    ColorDone =>
        /\ \A d \in MilestoneDates :
               InWalkedRange(d) =>
                   colorTrace[CoveringPos(d)].index > IndexBefore(CoveringPos(d))
        /\ \A k \in 1..(Len(colorTrace) - 1) :
               colorTrace[k].index <= colorTrace[k + 1].index

\* ---- C6
\* M is the only date that carries events; exactly one of them is a
\* milestone-flagged personal event and none has a colour
SingleMilestone(M) ==
    /\ DOMAIN mergedEvents = {M}
    /\ Cardinality({n \in 1..Len(mergedEvents[M]) :
                       IsMilestone(mergedEvents[M][n])}) = 1
    /\ \A n \in 1..Len(mergedEvents[M]) : mergedEvents[M][n].color = ""

\* the box is dated M, or it is a week box whose seven days, cut at the
\* birthday that ends its year, contain M
CoversDate(box, M) ==
    \/ box.date = M
    \/ /\ box.type # "birthday"
       /\ CalendarDay(box.date) <= CalendarDay(M)
       /\ CalendarDay(M) <= CalendarDay(box.date) + 6
       /\ CalendarDay(M) < anniversary(box.year + 1)

\* C6 (as claimed): with a single milestone on M, no override and a palette
\* of two or more colours, every box dated before M has the first palette
\* colour and every box dated on or after M has the second.
C6_SwitchAtMilestoneDate ==
    ColorDone =>
        \A M \in DOMAIN mergedEvents :
            SingleMilestone(M) /\ Len(milestoneColors) >= 2 =>
                \A k \in 1..Len(sortedBoxes) :
                    boxColorMap[sortedBoxes[k].date] =
                        IF CalendarDay(sortedBoxes[k].date) < CalendarDay(M)
                        THEN milestoneColors[1]
                        ELSE milestoneColors[2]

\* C6 (amended): with a single milestone on M, no override and a palette of
\* two or more colours, the colour switches at the box that covers M (the
\* week box whose scanned days contain M, dated at its Sunday anchor, or the
\* birthday box dated M): boxes before it have the first palette colour, it
\* and all boxes after it have the second; when no box covers M every box
\* has the first colour.
C6_SwitchAtCoveringBox ==
    ColorDone =>
        \A M \in DOMAIN mergedEvents :
            SingleMilestone(M) /\ Len(milestoneColors) >= 2 =>
                \A k \in 1..Len(sortedBoxes) :
                    boxColorMap[sortedBoxes[k].date] =
                        IF \E j \in 1..k : CoversDate(sortedBoxes[j], M)
                        THEN milestoneColors[2]
                        ELSE milestoneColors[1]

\* the worked example: birth 2000-01-15, milestone on Thursday 2000-06-01,
\* palette [A, B, C]; the box of Sunday 2000-05-28 already has colour B
C6_Witness ==
    /\ ColorDone
    /\ weeksConfig.startDate = <<2000, 1, 15>>
    /\ timeZone = "UTC"
    /\ SingleMilestone(<<2000, 6, 1>>)
    /\ milestoneColors = <<"A", "B", "C">>
    /\ boxColorMap[<<2000, 5, 21>>] = "A"
    /\ boxColorMap[<<2000, 5, 28>>] = "B"
    /\ boxColorMap[<<2001, 1, 15>>] = "B"

\* ---- C7
HasColor(e) == e.color # ""
IsMilestoneOverride(e) == e.eventType = "personal" /\ e.milestone /\ e.color # ""

\* the events at the date of the k-th sorted box
EventsOfBox(k) == EventsAt(mergedEvents, sortedBoxes[k].date)

\* the k-th sorted box increments the milestone index
AdvancesIndex(k) == sortedBoxes[k].date \in milestoneWeeks

\* the k-th sorted box increments the index to an entry the palette has
AdvancesColor(k) ==
    /\ sortedBoxes[k].date \in milestoneWeeks
    /\ IndexBefore(k) + 1 < Len(milestoneColors)

\* C7 (as claimed): whenever any event at the current box's date carries a
\* colour, that colour is assigned to the box and to every following box up
\* to, not including, the next box that advances the milestone index or
\* carries another override.
C7_AnyOverrideApplies ==
    ColorDone =>
        \A j \in 1..Len(sortedBoxes) :
            LET cs == SelectSeq(EventsOfBox(j), HasColor)
            IN  cs # <<>> =>
                    /\ \E n \in 1..Len(cs) : colorTrace[j].color = cs[n].color
                    /\ \A k \in (j + 1)..Len(sortedBoxes) :
                           (\A m \in (j + 1)..k :
                                /\ SelectSeq(EventsOfBox(m), HasColor) = <<>>
                                /\ ~ AdvancesIndex(m))
                               => colorTrace[k].color = colorTrace[j].color

\* C7 (amended): whenever a milestone-flagged personal event at the current
\* box's date carries a colour, the colour of the last such event is
\* assigned to the box and to every following box up to, not including, the
\* next box that advances the index to an existing palette entry or carries
\* another such override; a colour on any other event changes nothing.
C7_MilestoneOverrideApplies ==
    ColorDone =>
        \A j \in 1..Len(sortedBoxes) :
            LET cs == SelectSeq(EventsOfBox(j), IsMilestoneOverride)
            IN  /\ cs # <<>> =>
                    /\ colorTrace[j].color = cs[Len(cs)].color
                    /\ boxColorMap[sortedBoxes[j].date] = cs[Len(cs)].color
                    /\ \A k \in (j + 1)..Len(sortedBoxes) :
                           (\A m \in (j + 1)..k :
                                /\ SelectSeq(EventsOfBox(m), IsMilestoneOverride)
                                       = <<>>
                                /\ ~ AdvancesColor(m))
                               => colorTrace[k].color = colorTrace[j].color
                /\ (/\ cs = <<>>
                    /\ SelectSeq(EventsOfBox(j), HasColor) # <<>>
                    /\ ~ AdvancesColor(j))
                       => colorTrace[j].color = ColorBefore(j)

\* an override X that lasts over several boxes and is ended by an advance
\* to the palette's third colour
C7_Witness ==
    /\ ColorDone
    /\ \E j \in 1..(Len(sortedBoxes) - 2) :
           /\ SelectSeq(EventsOfBox(j), IsMilestoneOverride) # <<>>
           /\ colorTrace[j].color = "X"
           /\ colorTrace[j + 1].color = "X"
           /\ \E k \in (j + 2)..Len(sortedBoxes) :
                  /\ AdvancesColor(k)
                  /\ colorTrace[k - 1].color = "X"
                  /\ colorTrace[k].color = "C"

\* ---- C8
\* the viewport width the layout code reads
ViewportWidth(win) == IF win.defined THEN win.innerWidth ELSE 1200

\* the two invocations read the viewport alike: with a measured width only
\* the normal-mode week cell looks at it (768 threshold); without one the
\* breakpoint selects the constants
SameViewportClass ==
    IF UsesMeasuredWidth(measuredWidth)
    THEN \/ compactMode
         \/ (ViewportWidth(window) <= 768) = (ViewportWidth(prevWindow) <= 768)
    ELSE BreakpointOf(ViewportWidth(window))
             = BreakpointOf(ViewportWidth(prevWindow))

\* the constants, and the width tested and the width added for every box
\* of the call, are the same under the viewport of the first invocation and
\* under that of the second
SameLayoutValues ==
    /\ getResponsiveConstants(compactMode, measuredWidth, window)
           = getResponsiveConstants(compactMode, measuredWidth, prevWindow)
    /\ \A k \in 1..Len(boxes) :
           /\ nextBoxWidth(boxes[k].label, compactMode, measuredWidth, window)
                  = nextBoxWidth(boxes[k].label, compactMode, measuredWidth,
                                 prevWindow)
           /\ boxWidth(boxes[k], compactMode, measuredWidth, window)
                  = boxWidth(boxes[k], compactMode, measuredWidth, prevWindow)

\* the component has rendered twice and the second colour pass is over
SecondColorPassDone == ColorDone /\ renderNo = 2

\* C8 (as claimed): a second invocation of processBoxesIntoRows with the
\* same boxes, compact flag and measured width returns the same rows from
\* the same constants and box widths, whatever the viewport width is at
\* either invocation; and a second render of the same birth date and events
\* produces the same colour map.
C8_RowsIgnoreViewport ==
    /\ (pc = "none" /\ lpc = "done" /\ invocation = 2)
           => (rows = prevRows /\ SameLayoutValues)
    /\ SecondColorPassDone => boxColorMap = prevBoxColorMap

\* C8 (amended): a second invocation with the same boxes, compact flag and
\* measured width returns the same rows from the same constants and box
\* widths when the viewport width is in the same class at both invocations:
\* any viewport in compact mode with a measured width, the same side of
\* 768 px in normal mode with a measured width, the same breakpoint when no
\* measured width is used. A second render of the same birth date, events
\* and palette in the same time zone produces the same colour map, whatever
\* the compact flag and the measured container width of either render.
C8_RowsSameForSameViewport ==
    /\ (pc = "none" /\ lpc = "done" /\ invocation = 2 /\ SameViewportClass)
           => (rows = prevRows /\ SameLayoutValues)
    /\ SecondColorPassDone => boxColorMap = prevBoxColorMap

\* normal mode with a measured width: the viewport changed between the two
\* invocations without crossing 768 px, and the same two or more rows came
\* back
C8_Witness ==
    /\ pc = "none"
    /\ lpc = "done"
    /\ invocation = 2
    /\ window # prevWindow
    /\ SameViewportClass
    /\ ~ compactMode
    /\ UsesMeasuredWidth(measuredWidth)
    /\ Len(rows) >= 2
    /\ rows = prevRows
    /\ SameLayoutValues

\* ---- C9
IsUsableWidth(mw) == \/ mw.k = "num" /\ mw.v > 0
                     \/ mw.k = "half" /\ mw.v >= 0

\* C9 (as claimed): a measured width that is absent, zero, negative, NaN or
\* infinite is ignored: getResponsiveConstants returns an entry of the
\* static breakpoint table and the width never reaches
\* calculateDynamicConstants.
C9_InvalidWidthIgnored ==
    ~ IsUsableWidth(measuredWidth) =>
        /\ ~ UsesMeasuredWidth(measuredWidth)
        /\ getResponsiveConstants(compactMode, measuredWidth, window)
              \in StaticEntries

\* ---- C10
MergeDone == pc \in {"year", "color", "rows"}

ExpectedKeys ==
    DOMAIN lifeEvents
        \cup (IF APP_CONFIG.defaultShowWorldEvents
              THEN DOMAIN worldEvents ELSE {})
        \cup (IF APP_CONFIG.defaultShowPresidents
              THEN DOMAIN usPresidents ELSE {})

ExpectedAt(d) ==
    TagEvents(EventsAt(lifeEvents, d), "personal")
        \o (IF APP_CONFIG.defaultShowWorldEvents
            THEN TagEvents(EventsAt(worldEvents, d), "world") ELSE <<>>)
        \o (IF APP_CONFIG.defaultShowPresidents
            THEN TagEvents(EventsAt(usPresidents, d), "president") ELSE <<>>)

\* C10: the mapping getMergedEvents returns has exactly the date keys of the
\* enabled sources, and each key's list is the personal events, then the
\* world events, then the president events of that date, in their original
\* order and tagged with their source.
C10_MergedIsConcatenation ==
    MergeDone =>
        /\ DOMAIN mergedEvents = ExpectedKeys
        /\ \A d \in ExpectedKeys : mergedEvents[d] = ExpectedAt(d)

\* world events enabled and president events disabled: one date is a key
\* of all three sources and its list is the personal event followed by the
\* world event; another is a key of worldEvents alone and was added with
\* its world event; a third is a key of usPresidents alone and was not added
C10_Witness ==
    /\ MergeDone
    /\ APP_CONFIG.defaultShowWorldEvents
    /\ ~APP_CONFIG.defaultShowPresidents
    /\ \E d \in DOMAIN lifeEvents \cap DOMAIN worldEvents
                  \cap DOMAIN usPresidents :
           /\ d \in DOMAIN mergedEvents
           /\ Len(mergedEvents[d]) = 2
           /\ mergedEvents[d][1].eventType = "personal"
           /\ mergedEvents[d][1].headline = evJob.headline
           /\ mergedEvents[d][2].eventType = "world"
           /\ mergedEvents[d][2].headline = evNews.headline
    /\ \E d \in DOMAIN worldEvents \ DOMAIN lifeEvents :
           /\ d \in DOMAIN mergedEvents
           /\ Len(mergedEvents[d]) = 1
           /\ mergedEvents[d][1].eventType = "world"
           /\ mergedEvents[d][1].headline = evNews.headline
    /\ \E d \in DOMAIN usPresidents \ DOMAIN lifeEvents :
           /\ d \notin DOMAIN worldEvents
           /\ d \notin DOMAIN mergedEvents

\* ---- C11
\* the boxes of the compact render and of the normal render of the same
\* inputs, once both renders have walked the calendar
CompactBoxes == IF compactMode THEN allBoxes ELSE prevAllBoxes
NormalBoxes == IF compactMode THEN prevAllBoxes ELSE allBoxes

\* the second render has finished its colour pass
BothColorPassesDone == ColorDone /\ renderNo = 2

\* C11: in compact mode a week whose primary event has a headline without
\* an emoji is emitted as an empty 'week' box, milestone-flagged or not, and
\* the colour pass gives the same palette index and colour to every box as
\* in normal mode: the colour map of the compact render equals that of the
\* normal render of the same inputs.
C11_CompactKeepsColorMap ==
    BothColorPassesDone =>
        /\ Len(CompactBoxes) = Len(NormalBoxes)
        /\ \A k \in 1..Len(NormalBoxes) :
               (/\ NormalBoxes[k].type = "event"
                /\ extractFirstEmoji(NormalBoxes[k].label) = <<>>)
                   => CompactBoxes[k] =
                          [type |-> "week", label |-> <<>>,
                           date |-> NormalBoxes[k].date,
                           year |-> NormalBoxes[k].year,
                           eventType |-> "none"]
        /\ colorTrace = prevColorTrace
        /\ boxColorMap = prevBoxColorMap

\* a milestone "Started job" in the middle of a week: suppressed in the
\* compact render, and its box still switches to the second colour
C11_Witness ==
    /\ BothColorPassesDone
    /\ compactMode
    /\ \E k \in 1..Len(allBoxes) :
           /\ prevAllBoxes[k].type = "event"
           /\ prevAllBoxes[k].label = evJob.headline
           /\ allBoxes[k].type = "week"
           /\ allBoxes[k].date \in milestoneWeeks
           /\ allBoxes[k].date \notin DOMAIN mergedEvents
           /\ boxColorMap[allBoxes[k].date] = milestoneColors[2]
           /\ prevBoxColorMap[allBoxes[k].date] = milestoneColors[2]

\* ---- C12
IsWeekType(box) == box.type \in {"week", "event"}

\* the week-type boxes of the emitted sequence, in order
WeekTypeBoxes == SelectSeq(allBoxes, IsWeekType)

\* C12 (as claimed): for every year after the birth year the Sunday-aligned
\* week containing that year's anniversary has a week-type box emitted by
\* the previous year's iteration, and consecutive week-type boxes of the
\* whole sequence have anchor dates exactly 7 days apart.
C12_WeeksSevenDaysApart ==
    WalkDone =>
        /\ \A y \in (weeksConfig.startYear + 1)..weeksConfig.endYear :
               \E k \in 1..Len(allBoxes) :
                   /\ IsWeekType(allBoxes[k])
                   /\ allBoxes[k].year = y - 1
                   /\ CalendarDay(allBoxes[k].date)
                          = getWeekStartSunday(anniversary(y))
        /\ \A k \in 1..(Len(WeekTypeBoxes) - 1) :
               CalendarDay(WeekTypeBoxes[k + 1].date)
                   = CalendarDay(WeekTypeBoxes[k].date) + 7

\* ---- C13
\* no event at the date of the k-th sorted box carries a colour
NoOverrideAt(k) == SelectSeq(EventsOfBox(k), HasColor) = <<>>

\* C13 (as claimed): once the palette index has been advanced to or past
\* the palette length, a box that carries no override and whose latest
\* colour change was that milestone advance (no override at or after it) is
\* assigned the last palette entry, also when an override was in effect
\* before the advance.
C13_FreezeAtLastEntry ==
    ColorDone =>
        \A k \in 1..Len(sortedBoxes) :
            (/\ colorTrace[k].index >= Len(milestoneColors)
             /\ \E j \in 1..k :
                    /\ AdvancesIndex(j)
                    /\ colorTrace[j].index >= Len(milestoneColors)
                    /\ \A m \in j..k : NoOverrideAt(m))
                => /\ colorTrace[k].color = milestoneColors[Len(milestoneColors)]
                   /\ boxColorMap[sortedBoxes[k].date]
                          = milestoneColors[Len(milestoneColors)]

\* ---- C14
\* the dates with at least one merged event, from the birth date up to the
\* day before the anniversary that follows endYear
EventDaysInLife ==
    {d \in DOMAIN mergedEvents :
        /\ Len(mergedEvents[d]) > 0
        /\ CalendarDay(d) >= startDate
        /\ CalendarDay(d) < anniversary(weeksConfig.endYear + 1)}

\* C14 (as claimed): in normal mode every event-bearing date of the walked
\* life lies in the week (anchor date to anchor + 6 days) of an emitted
\* 'event' box.
C14_EventDaysCovered ==
    (WalkDone /\ ~ compactMode) =>
        \A d \in EventDaysInLife :
            \E k \in 1..Len(allBoxes) :
                /\ allBoxes[k].type = "event"
                /\ CalendarDay(allBoxes[k].date) <= CalendarDay(d)
                /\ CalendarDay(d) <= CalendarDay(allBoxes[k].date) + 6

\* ---- C15
\* the measured width the render body passes to processBoxesIntoRows
PassedWidth == IF JsGtZero(containerWidth) THEN containerWidth ELSE Undefined

\* the width processBoxesIntoRows adds for the box equals the width
\* shouldBreakBeforeBox tested for it
WidthsAgree(box) ==
    boxWidth(box, compactMode, PassedWidth, window)
        = nextBoxWidth(box.label, compactMode, PassedWidth, window)

NoBlankHeadline ==
    \A d \in DOMAIN mergedEvents :
        \A n \in 1..Len(mergedEvents[d]) : mergedEvents[d][n].headline # <<>>

\* C15 (as claimed): every emitted box has an empty label if and only if
\* its type is 'week', and so the width added for it equals the width
\* tested for it.
C15_LabelEmptyIffWeek ==
    WalkDone =>
        \A k \in 1..Len(allBoxes) :
            /\ (allBoxes[k].label = <<>>) <=> (allBoxes[k].type = "week")
            /\ WidthsAgree(allBoxes[k])

\* C15 (amended): every 'week' box has an empty label and every birthday
\* box a non-empty one; an 'event' box has an empty label only in normal
\* mode, when the primary event's headline is empty; for every box whose
\* label is empty exactly when its type is 'week' the width added equals
\* the width tested.
C15_LabelEmptyIffWeekUnlessBlank ==
    WalkDone =>
        \A k \in 1..Len(allBoxes) :
            /\ allBoxes[k].type = "week" => allBoxes[k].label = <<>>
            /\ (allBoxes[k].label = <<>> /\ allBoxes[k].type # "week")
                   => /\ allBoxes[k].type = "event"
                      /\ ~ compactMode
                      /\ ~ NoBlankHeadline
            /\ ((allBoxes[k].label = <<>>) <=> (allBoxes[k].type = "week"))
                   => WidthsAgree(allBoxes[k])

\* a compact walk with an emoji-labelled event box, a suppressed week and a
\* birthday box
C15_Witness ==
    /\ WalkDone
    /\ compactMode
    /\ NoBlankHeadline
    /\ \E k \in 1..Len(allBoxes) :
           /\ allBoxes[k].type = "event"
           /\ allBoxes[k].label = <<128640>>
           /\ WidthsAgree(allBoxes[k])
    /\ \E k \in 1..Len(allBoxes) :
           /\ allBoxes[k].type = "week"
           /\ Len(EventsAt(mergedEvents, allBoxes[k].date)) > 0
    /\ \E k \in 1..Len(allBoxes) : allBoxes[k].type = "birthday"

====
